---- MODULE Spec2Model ----
(***************************************************************************)
(* A model of package endpoint (endpoint/endpoint.go): target lists and    *)
(* their comparison, the provider-specific overlay, record construction    *)
(* and the owner filter.                                                   *)
(*                                                                         *)
(* Go strings are byte sequences.  A string is modelled as the sequence of *)
(* its ASCII codes, so that <, strings.EqualFold, strings.Split,           *)
(* strings.TrimSuffix and netip.ParseAddr are computed, not assumed.       *)
(* The strings used contain no ':' and no '%': on such strings             *)
(* netip.ParseAddr either takes its IPv4 branch or fails.                  *)
(***************************************************************************)
EXTENDS Integers, Sequences, FiniteSets, TLC

VARIABLES
    ta, tb,          \* two caller-owned Targets (the arrays behind the slices)
    tcall,           \* the last comparison called on them
    tret,            \* what it returned
    ps,              \* Endpoint.ProviderSpecific of one record
    pcall,           \* the last overlay method called: [op, key, value]
    pret,            \* what GetProviderSpecificProperty returned: [value, ok]
    ncall,           \* a constructor call: its arguments and, once made, which constructor
    nret,            \* what the constructor returned: [nil |-> TRUE] or a record
    eps,             \* the input slice of FilterEndpointsByOwnerID
    fcall,           \* the last call of the filter: [op, ownerID]
    filtered         \* the slice the filter returned

vars == <<ta, tb, tcall, tret, ps, pcall, pret, ncall, nret, eps, fcall, filtered>>

targetVars == <<ta, tb, tcall, tret>>
overlayVars == <<ps, pcall, pret>>
newVars == <<ncall, nret>>
filterVars == <<eps, fcall, filtered>>

----------------------------------------------------------------------------
(* Bounds *)

MaxTargets == 2        \* longest target list compared
MaxOrderTargets == 2   \* longest target list in the order check
MaxProps == 2          \* longest overlay populated directly
MaxLabels == 3         \* most dot-separated components of a dnsName
MaxNewTargets == 1     \* most targets passed to a constructor
MaxEps == 3            \* longest slice passed to the filter

----------------------------------------------------------------------------
(* Strings *)

Dot == 46              \* the byte '.'

IsDigit(c) == c >= 48 /\ c <= 57

IsUpper(c) == c >= 65 /\ c <= 90

\* "10.0.0.1", "2.0.0.1": numeric order is the reverse of string order.
Ip10 == <<49, 48, 46, 48, 46, 48, 46, 49>>

Ip2 == <<50, 46, 48, 46, 48, 46, 49>>

\* "1-0.a": a host name that sorts before both addresses as a string.
Host1 == <<49, 45, 48, 46, 97>>

\* "a", "A", "B"
StrLowA == <<97>>

StrUpA == <<65>>

StrUpB == <<66>>

\* "b.c": a second host name.
HostB == <<98, 46, 99>>

TargetPool == {Ip10, Ip2, Host1, StrLowA, StrUpA, StrUpB}

OrderPool == {Ip10, Ip2, Host1, HostB}

Lists(pool, n) == UNION {[1..k -> pool] : k \in 0..n}

\* Go's s < t on strings: bytewise lexicographic, a proper prefix is less.
RECURSIVE StrLessFrom(_, _, _)
StrLessFrom(s, t, i) ==
    IF i > Len(s) THEN i <= Len(t)
    ELSE IF i > Len(t) THEN FALSE
    ELSE IF s[i] # t[i] THEN s[i] < t[i]
    ELSE StrLessFrom(s, t, i + 1)

StrLess(s, t) == StrLessFrom(s, t, 1)

\* Simple case folding of one ASCII byte.
FoldByte(c) == IF IsUpper(c) THEN c + 32 ELSE c

\* strings.EqualFold on ASCII strings.
EqualFold(s, t) ==
    /\ Len(s) = Len(t)
    /\ \A i \in 1..Len(s) : FoldByte(s[i]) = FoldByte(t[i])

----------------------------------------------------------------------------
(* netip.ParseAddr, IPv4 branch, and netip.Addr.Less *)

InvalidAddr == [valid |-> FALSE, bits |-> 0, addr |-> 0]

HasDot(s) == \E i \in 1..Len(s) : s[i] = Dot

\* parseIPv4Fields: one pass over the bytes with the current octet `val`, its
\* digit count `digLen`, the number of octets stored `pos` and their value `acc`.
RECURSIVE ParseIPv4From(_, _, _, _, _, _)
ParseIPv4From(s, i, val, digLen, pos, acc) ==
    IF i > Len(s)
    THEN IF pos < 3 THEN InvalidAddr
         ELSE [valid |-> TRUE, bits |-> 32, addr |-> acc * 256 + val]
    ELSE IF IsDigit(s[i])
    THEN IF digLen = 1 /\ val = 0 THEN InvalidAddr
         ELSE LET v == val * 10 + (s[i] - 48)
              IN  IF v > 255 THEN InvalidAddr
                  ELSE ParseIPv4From(s, i + 1, v, digLen + 1, pos, acc)
    ELSE IF s[i] = Dot
    THEN IF i = 1 \/ i = Len(s) \/ s[i - 1] = Dot THEN InvalidAddr
         ELSE IF pos = 3 THEN InvalidAddr
         ELSE ParseIPv4From(s, i + 1, 0, 0, pos + 1, acc * 256 + val)
    ELSE InvalidAddr

\* netip.ParseAddr on a string without ':' and '%'.
ParseAddr(s) == IF HasDot(s) THEN ParseIPv4From(s, 1, 0, 0, 0, 0) ELSE InvalidAddr

\* netip.Addr.Less: by bit length, then by address.
AddrLess(x, y) == x.bits < y.bits \/ (x.bits = y.bits /\ x.addr < y.addr)

----------------------------------------------------------------------------
(* Targets: sort.Interface, Same, IsLess *)

Less(t, i, j) == StrLess(t[i], t[j])

Swap(t, i, j) == [t EXCEPT ![i] = t[j], ![j] = t[i]]

\* package sort on a short slice: insertion sort through Less and Swap.
RECURSIVE InsertDown(_, _)
InsertDown(t, j) ==
    IF j > 1 /\ Less(t, j, j - 1) THEN InsertDown(Swap(t, j, j - 1), j - 1) ELSE t

RECURSIVE InsertionSortFrom(_, _)
InsertionSortFrom(t, i) ==
    IF i > Len(t) THEN t ELSE InsertionSortFrom(InsertDown(t, i), i + 1)

SortNone(t) == t

SortTargets(t) == InsertionSortFrom(t, 2)

\* t.Same(o): the value returned and the two arrays as the call leaves them.
Same(t, o) ==
    IF Len(t) # Len(o) THEN [ret |-> FALSE, t |-> t, o |-> o]
    ELSE LET st == SortTargets(t)
             so == SortTargets(o)
         IN  [ret |-> \A i \in 1..Len(st) : EqualFold(st[i], so[i]),
              t |-> st, o |-> so]

\* The switch of IsLess on the first pair of elements that differ.
ElemLessIpLast(e, f) ==
    LET ipA == ParseAddr(e)
        ipB == ParseAddr(f)
    IN  IF ipA.valid /\ ipB.valid THEN AddrLess(ipA, ipB)
        ELSE IF ipA.valid /\ ~ipB.valid THEN FALSE
        ELSE IF ~ipA.valid /\ ipB.valid THEN TRUE
        ELSE StrLess(e, f)

ElemLess(e, f) ==
    LET ipA == ParseAddr(e)
        ipB == ParseAddr(f)
    IN  IF ipA.valid /\ ipB.valid THEN AddrLess(ipA, ipB)
        ELSE IF ipA.valid /\ ~ipB.valid THEN TRUE
        ELSE IF ~ipA.valid /\ ipB.valid THEN FALSE
        ELSE StrLess(e, f)

\* The loop of IsLess over the sorted arrays.
RECURSIVE IsLessFrom(_, _, _)
IsLessFrom(st, so, i) ==
    IF i > Len(st) THEN FALSE
    ELSE IF st[i] # so[i] THEN ElemLess(st[i], so[i])
    ELSE IsLessFrom(st, so, i + 1)

\* t.IsLess(o): the value returned and the two arrays as the call leaves them.
IsLess(t, o) ==
    IF Len(t) < Len(o) THEN [ret |-> TRUE, t |-> t, o |-> o]
    ELSE IF Len(t) > Len(o) THEN [ret |-> FALSE, t |-> t, o |-> o]
    ELSE LET st == SortTargets(t)
             so == SortTargets(o)
         IN  [ret |-> IsLessFrom(st, so, 1), t |-> st, o |-> so]

----------------------------------------------------------------------------
(* Comparisons called on the lists ta, tb *)

\* Each specification below exercises one part of the package; the variables
\* of the other parts stay at these values.
TargetsIdle == ta = <<>> /\ tb = <<>> /\ tcall = "none" /\ tret = FALSE

OverlayIdle ==
    /\ ps = <<>>
    /\ pcall = [op |-> "none", key |-> "", value |-> ""]
    /\ pret = [value |-> "", ok |-> FALSE]

NewIdle ==
    /\ ncall = [op |-> "none", dnsName |-> <<>>, recordType |-> "", ttl |-> 0, targets |-> <<>>]
    /\ nret = [nil |-> TRUE]

FilterIdle == eps = <<>> /\ fcall = [op |-> "none", ownerID |-> ""] /\ filtered = <<>>

InitTargets ==
    /\ ta \in Lists(TargetPool, MaxTargets)
    /\ tb \in Lists(TargetPool, MaxTargets)
    /\ tcall = "none"
    /\ tret = FALSE
    /\ OverlayIdle /\ NewIdle /\ FilterIdle

ASameB ==
    LET r == Same(ta, tb)
    IN  /\ ta' = r.t
        /\ tb' = r.o
        /\ tret' = r.ret
        /\ tcall' = "a.Same(b)"
        /\ UNCHANGED <<overlayVars, newVars, filterVars>>

BSameA ==
    LET r == Same(tb, ta)
    IN  /\ tb' = r.t
        /\ ta' = r.o
        /\ tret' = r.ret
        /\ tcall' = "b.Same(a)"
        /\ UNCHANGED <<overlayVars, newVars, filterVars>>

AIsLessB ==
    LET r == IsLess(ta, tb)
    IN  /\ ta' = r.t
        /\ tb' = r.o
        /\ tret' = r.ret
        /\ tcall' = "a.IsLess(b)"
        /\ UNCHANGED <<overlayVars, newVars, filterVars>>

BIsLessA ==
    LET r == IsLess(tb, ta)
    IN  /\ tb' = r.t
        /\ ta' = r.o
        /\ tret' = r.ret
        /\ tcall' = "b.IsLess(a)"
        /\ UNCHANGED <<overlayVars, newVars, filterVars>>

NextTargets == ASameB \/ BSameA \/ AIsLessB \/ BIsLessA

SpecTargets == InitTargets /\ [][NextTargets]_vars

\* The IsLess calls on lists over a pool of addresses and names, for the
\* order properties of IsLess.
InitOrder ==
    /\ ta \in Lists(OrderPool, MaxOrderTargets)
    /\ tb \in Lists(OrderPool, MaxOrderTargets)
    /\ tcall = "none"
    /\ tret = FALSE
    /\ OverlayIdle /\ NewIdle /\ FilterIdle

NextOrder == AIsLessB \/ BIsLessA

SpecOrder == InitOrder /\ [][NextOrder]_vars

----------------------------------------------------------------------------
(* Claims about Targets *)

Range(s) == {s[i] : i \in 1..Len(s)}

Count(s, x) == Cardinality({i \in 1..Len(s) : s[i] = x})

SameBag(s, t) == Len(s) = Len(t) /\ \A x \in Range(s) \cup Range(t) : Count(s, x) = Count(t, x)

FoldStr(s) == [i \in 1..Len(s) |-> FoldByte(s[i])]

FoldAll(t) == [i \in 1..Len(t) |-> FoldStr(t[i])]

\* C2: a.Same(b) is true exactly when a and b have the same length and are equal
\* as multisets once every element is case-folded.
C2_SameIsFoldedMultisetEquality ==
    [][(tcall' \in {"a.Same(b)", "b.Same(a)"}) => (tret' = SameBag(FoldAll(ta), FoldAll(tb)))]_vars

\* C3: a call of Same or IsLess leaves the caller's two lists as they were:
\* the same elements in the same order.
C3_ComparisonLeavesArguments ==
    [][(tcall' \in {"a.Same(b)", "b.Same(a)", "a.IsLess(b)", "b.IsLess(a)"})
         => (ta' = ta /\ tb' = tb)]_vars

\* The list t in nondecreasing string order.
SortedOf(t) ==
    CHOOSE s \in [1..Len(t) -> Range(t)] :
        /\ SameBag(s, t)
        /\ \A i \in 1..Len(s) : \A j \in 1..Len(s) : i < j => ~StrLess(s[j], s[i])

IsIP(x) == ParseAddr(x).valid

\* The ordering rule as stated: the length rule, then the first differing pair
\* of the sorted lists decides, addresses before names.
IsLessRule(a, b) ==
    IF Len(a) < Len(b) THEN TRUE
    ELSE IF Len(a) > Len(b) THEN FALSE
    ELSE LET sa == SortedOf(a)
             sb == SortedOf(b)
             D == {i \in 1..Len(sa) : sa[i] # sb[i]}
         IN  IF D = {} THEN FALSE
             ELSE LET i == CHOOSE k \in D : \A m \in D : k <= m
                      x == sa[i]
                      y == sb[i]
                  IN  CASE IsIP(x) /\ IsIP(y) -> AddrLess(ParseAddr(x), ParseAddr(y))
                        [] IsIP(x) /\ ~IsIP(y) -> TRUE
                        [] ~IsIP(x) /\ IsIP(y) -> FALSE
                        [] OTHER -> StrLess(x, y)

\* C4: the value IsLess returns is the one the ordering rule gives for the
\* lists as they were when it was called.
C4_IsLessFollowsRule ==
    [][/\ (tcall' = "a.IsLess(b)") => (tret' = IsLessRule(ta, tb))
       /\ (tcall' = "b.IsLess(a)") => (tret' = IsLessRule(tb, ta))]_vars

\* a.IsLess(b) returned true on two lists of two whose first elements agree and
\* whose second elements are an address (a's) and a name that sorts before it.
C4_Witness ==
    /\ tcall = "a.IsLess(b)"
    /\ tret = TRUE
    /\ Len(ta) = 2 /\ Len(tb) = 2
    /\ ta[1] = tb[1]
    /\ IsIP(ta[2]) /\ ~IsIP(tb[2])
    /\ StrLess(tb[2], ta[2])

Perms(t) == {[i \in 1..Len(t) |-> t[p[i]]] : p \in Permutations(1..Len(t))}

\* C9: IsLess is irreflexive, asymmetric and transitive on the lists, and its
\* value does not change when the elements of either list are permuted.
C9_IsLessStrictOrder ==
    LET ab == IsLess(ta, tb).ret
    IN  /\ ~IsLess(ta, ta).ret
        /\ ~(ab /\ IsLess(tb, ta).ret)
        /\ ab => \A c \in Lists(OrderPool, MaxOrderTargets) :
                    IsLess(tb, c).ret => IsLess(ta, c).ret
        /\ \A pa \in Perms(ta) : \A pb \in Perms(tb) : IsLess(pa, pb).ret = ab

\* a.IsLess(b) returned true on two lists of two that mix addresses and names
\* and were given unsorted, and b is less than a third such list.
C9_Witness ==
    /\ tcall = "a.IsLess(b)"
    /\ tret = TRUE
    /\ Len(ta) = 2 /\ Len(tb) = 2
    /\ IsIP(ta[1]) /\ ~IsIP(ta[2])
    /\ ~IsIP(tb[1]) /\ IsIP(tb[2])
    /\ \E c \in Lists(OrderPool, MaxOrderTargets) :
          Len(c) = 2 /\ IsLess(tb, c).ret /\ ~IsIP(c[1]) /\ ~IsIP(c[2])

----------------------------------------------------------------------------
(* NewEndpoint, NewEndpointWithTTL *)

MaxLabelLen == 63      \* the longest label NewEndpointWithTTL accepts

DotStr == <<Dot>>

\* strings.TrimSuffix(s, suffix)
TrimAllSuffix(s, suffix) ==
    LET keep == {n \in 0..Len(s) : \A i \in (n + 1)..Len(s) : <<s[i]>> = suffix}
    IN  SubSeq(s, 1, CHOOSE n \in keep : \A m \in keep : n <= m)

TrimSuffix(s, suffix) ==
    IF Len(s) >= Len(suffix) /\ SubSeq(s, Len(s) - Len(suffix) + 1, Len(s)) = suffix
    THEN SubSeq(s, 1, Len(s) - Len(suffix))
    ELSE s

\* strings.Split(s, "."): the components between the dots, empty ones included:
\* one more component than s has dots, the k-th running from after the
\* (k-1)-th dot to before the k-th.
DotAt(s, k) ==
    LET dots == {i \in 1..Len(s) : s[i] = Dot}
    IN  CHOOSE i \in dots : Cardinality({j \in dots : j < i}) = k - 1

Split(s) ==
    LET n == Cardinality({i \in 1..Len(s) : s[i] = Dot})
    IN  [k \in 1..(n + 1) |->
            SubSeq(s, IF k = 1 THEN 1 ELSE DotAt(s, k - 1) + 1,
                      IF k = n + 1 THEN Len(s) ELSE DotAt(s, k) - 1)]

\* NewLabels(): an empty mapping.
NewLabels == [k \in {} |-> ""]

NilEndpoint == [nil |-> TRUE]

NewEndpointWithTTL(dnsName, recordType, ttl, targets) ==
    LET cleanTargets == [idx \in 1..Len(targets) |-> TrimSuffix(targets[idx], DotStr)]
        labels == Split(dnsName)
    IN  IF \E i \in 1..Len(labels) : Len(labels[i]) > MaxLabelLen
        THEN NilEndpoint
        ELSE [nil |-> FALSE,
              DNSName |-> TrimSuffix(dnsName, DotStr),
              Targets |-> cleanTargets,
              RecordType |-> recordType,
              SetIdentifier |-> "",
              RecordTTL |-> ttl,
              Labels |-> NewLabels,
              ProviderSpecific |-> <<>>]

NewEndpoint(dnsName, recordType, targets) == NewEndpointWithTTL(dnsName, recordType, 0, targets)

----------------------------------------------------------------------------
(* ProviderSpecific: the overlay of one record *)

\* Property names and values: only their equality is used, so they are kept
\* as opaque strings.
PropNames == {"n1", "n2", "n3"}

PropValues == {"v1", "v2"}

Props == [Name : PropNames, Value : PropValues]

\* The index at which `for i, providerSpecific := range` first finds key; 0 if
\* the loop runs to its end.
FirstIndex(p, key) ==
    IF \E i \in 1..Len(p) : p[i].Name = key
    THEN CHOOSE i \in 1..Len(p) : p[i].Name = key /\ \A j \in 1..(i - 1) : p[j].Name # key
    ELSE 0

GetProviderSpecificProperty(p, key) ==
    LET i == FirstIndex(p, key)
    IN  IF i # 0 THEN [value |-> p[i].Value, ok |-> TRUE]
        ELSE [value |-> "", ok |-> FALSE]

SetAlwaysAppend(p, key, value) == Append(p, [Name |-> key, Value |-> value])

SetMoveToEnd(p, key, value) ==
    Append(SelectSeq(p, LAMBDA e : e.Name # key), [Name |-> key, Value |-> value])

SetProviderSpecificProperty(p, key, value) ==
    LET i == FirstIndex(p, key)
    IN  IF i # 0 THEN [p EXCEPT ![i] = [Name |-> key, Value |-> value]]
        ELSE Append(p, [Name |-> key, Value |-> value])

WithProviderSpecific(p, key, value) == SetProviderSpecificProperty(p, key, value)

DeleteProviderSpecificProperty(p, key) ==
    LET i == FirstIndex(p, key)
    IN  IF i # 0 THEN SubSeq(p, 1, i - 1) \o SubSeq(p, i + 1, Len(p))
        ELSE p

\* The overlay of a freshly constructed record.
InitOverlay ==
    /\ ps = NewEndpoint(<<97>>, "A", <<>>).ProviderSpecific
    /\ pcall = [op |-> "none", key |-> "", value |-> ""]
    /\ pret = [value |-> "", ok |-> FALSE]
    /\ TargetsIdle /\ NewIdle /\ FilterIdle

CallGet ==
    \E k \in PropNames :
        /\ pret' = GetProviderSpecificProperty(ps, k)
        /\ pcall' = [op |-> "Get", key |-> k, value |-> ""]
        /\ UNCHANGED <<ps, targetVars, newVars, filterVars>>

CallSet ==
    \E k \in PropNames : \E v \in PropValues :
        /\ ps' = SetProviderSpecificProperty(ps, k, v)
        /\ pcall' = [op |-> "Set", key |-> k, value |-> v]
        /\ UNCHANGED <<pret, targetVars, newVars, filterVars>>

CallWith ==
    \E k \in PropNames : \E v \in PropValues :
        /\ ps' = WithProviderSpecific(ps, k, v)
        /\ pcall' = [op |-> "With", key |-> k, value |-> v]
        /\ UNCHANGED <<pret, targetVars, newVars, filterVars>>

CallDelete ==
    \E k \in PropNames :
        /\ ps' = DeleteProviderSpecificProperty(ps, k)
        /\ pcall' = [op |-> "Delete", key |-> k, value |-> ""]
        /\ UNCHANGED <<pret, targetVars, newVars, filterVars>>

\* ProviderSpecific is an exported field with a json tag: decoding a record, or
\* assigning the field, sets it to any list of properties.
Unmarshal ==
    \E p \in Lists(Props, MaxProps) :
        /\ ps' = p
        /\ pcall' = [op |-> "Unmarshal", key |-> "", value |-> ""]
        /\ UNCHANGED <<pret, targetVars, newVars, filterVars>>

NextOverlay == CallGet \/ CallSet \/ CallWith \/ CallDelete

\* A freshly constructed record and the overlay methods.
SpecOverlay == InitOverlay /\ [][NextOverlay]_vars

NextDeser == CallGet \/ CallSet \/ CallWith \/ CallDelete \/ Unmarshal

\* The same, with the overlay also populated directly.
SpecDeser == InitOverlay /\ [][NextDeser]_vars

----------------------------------------------------------------------------
(* Claims about the overlay *)

\* C5: from a fresh record, whatever Set / With / Delete calls are made, no two
\* entries of ProviderSpecific have the same Name.
C5_OverlayNamesUnique ==
    \A i \in 1..Len(ps) : \A j \in 1..Len(ps) : i # j => ps[i].Name # ps[j].Name

\* Three entries, the last call a Set that replaced the first of them.
C5_Witness ==
    /\ pcall.op = "Set"
    /\ Len(ps) = 3
    /\ ps[1].Name = pcall.key
    /\ ps[1].Value = pcall.value

\* C6: Set(name, value) replaces the value of an entry named name where it
\* stands and changes nothing else, or, when there is none, appends (name,
\* value); afterwards Get(name) returns (value, true).
C6_SetReplacesOrAppends ==
    [][(pcall'.op = "Set") =>
        LET k == pcall'.key
            v == pcall'.value
            new == [Name |-> k, Value |-> v]
        IN  /\ (\E i \in 1..Len(ps) : ps[i].Name = k)
                  => (\E i \in 1..Len(ps) : ps[i].Name = k /\ ps' = [ps EXCEPT ![i] = new])
            /\ (\A i \in 1..Len(ps) : ps[i].Name # k) => (ps' = Append(ps, new))
            /\ GetProviderSpecificProperty(ps', k) = [value |-> v, ok |-> TRUE]]_vars

\* The last call was a Set whose name stands first of at least two entries, so
\* it replaced (an append puts a new name last), and a Set that appended is in
\* the same overlay: its last entry's name occurs once.
C6_Witness ==
    /\ pcall.op = "Set"
    /\ Len(ps) >= 2
    /\ ps[1].Name = pcall.key
    /\ ps[1].Value = pcall.value
    /\ ps[Len(ps)].Name # pcall.key

\* C7: after Delete(key), Get(key) finds nothing, the entries with other names
\* are as before and in the same order, and an overlay without key is unchanged.
C7_DeleteRemovesName ==
    [][(pcall'.op = "Delete") =>
        LET k == pcall'.key
        IN  /\ ~GetProviderSpecificProperty(ps', k).ok
            /\ SelectSeq(ps', LAMBDA e : e.Name # k) = SelectSeq(ps, LAMBDA e : e.Name # k)
            /\ (\A i \in 1..Len(ps) : ps[i].Name # k) => (ps' = ps)]_vars

----------------------------------------------------------------------------
(* Calls of the constructors *)

\* Inputs: names of up to MaxLabels components, each empty, one byte, exactly
\* MaxLabelLen bytes or one more; an empty last component is a trailing dot.
Run(n) == [i \in 1..n |-> 97]

LabelPool == {Run(n) : n \in {0, 1, MaxLabelLen, MaxLabelLen + 1}}

RECURSIVE JoinFrom(_, _)
JoinFrom(ls, i) == IF i = Len(ls) THEN ls[i] ELSE ls[i] \o DotStr \o JoinFrom(ls, i + 1)

DNSNames == {JoinFrom(ls, 1) : ls \in UNION {[1..k -> LabelPool] : k \in 1..MaxLabels}}

\* "a", "a.", "a..", "."
NewTargetPool == {<<97>>, <<97, 46>>, <<97, 46, 46>>, <<46>>}

RecordTypes == {"A", "CNAME"}

TTLs == {0, 300}

\* The arguments are drawn here; the call is made by one of the two actions.
InitNew ==
    /\ ncall \in [op : {"none"}, dnsName : DNSNames, recordType : RecordTypes,
                  ttl : TTLs, targets : Lists(NewTargetPool, MaxNewTargets)]
    /\ nret = NilEndpoint
    /\ TargetsIdle /\ OverlayIdle /\ FilterIdle

CallNewEndpoint ==
    /\ ncall.op = "none"
    /\ nret' = NewEndpoint(ncall.dnsName, ncall.recordType, ncall.targets)
    /\ ncall' = [ncall EXCEPT !.op = "NewEndpoint"]
    /\ UNCHANGED <<targetVars, overlayVars, filterVars>>

CallNewEndpointWithTTL ==
    /\ ncall.op = "none"
    /\ nret' = NewEndpointWithTTL(ncall.dnsName, ncall.recordType, ncall.ttl, ncall.targets)
    /\ ncall' = [ncall EXCEPT !.op = "NewEndpointWithTTL"]
    /\ UNCHANGED <<targetVars, overlayVars, filterVars>>

NextNew == CallNewEndpoint \/ CallNewEndpointWithTTL

SpecNew == InitNew /\ [][NextNew]_vars

----------------------------------------------------------------------------
(* Claims about construction *)

\* Some run of more than MaxLabelLen bytes of s holds no dot.
HasLongComponent(s) ==
    \E i \in 1..(Len(s) - MaxLabelLen) : \A k \in i..(i + MaxLabelLen) : s[k] # Dot

\* s without one trailing dot, if it has one.
DropOneDot(s) == IF Len(s) > 0 /\ s[Len(s)] = Dot THEN SubSeq(s, 1, Len(s) - 1) ELSE s

\* C8: a constructor returns nil exactly when a component of dnsName is longer
\* than 63; otherwise the record has dnsName and every target without one
\* trailing dot, no labels, an empty overlay and the ttl given (0 for NewEndpoint).
C8_ConstructionGuard ==
    (ncall.op # "none") =>
        /\ nret.nil <=> HasLongComponent(ncall.dnsName)
        /\ ~nret.nil =>
            /\ nret.DNSName = DropOneDot(ncall.dnsName)
            /\ Len(nret.Targets) = Len(ncall.targets)
            /\ \A i \in 1..Len(ncall.targets) : nret.Targets[i] = DropOneDot(ncall.targets[i])
            /\ nret.RecordType = ncall.recordType
            /\ DOMAIN nret.Labels = {}
            /\ nret.ProviderSpecific = <<>>
            /\ nret.RecordTTL = (IF ncall.op = "NewEndpoint" THEN 0 ELSE ncall.ttl)

\* A record was built from a name of a 63-byte label followed by two dots and
\* from a target ending in two dots.
C8_Witness ==
    /\ ncall.op = "NewEndpointWithTTL"
    /\ ~nret.nil
    /\ ncall.dnsName = Run(MaxLabelLen) \o DotStr \o DotStr
    /\ Len(ncall.targets) = 1
    /\ ncall.targets[1] = <<97, 46, 46>>
    /\ ncall.ttl = 300

----------------------------------------------------------------------------
(* Key, IsOwnedBy, FilterEndpointsByOwnerID *)

\* The well-known label key of the owner.
OwnerLabelKey == "owner"

Key(e) == [DNSName |-> e.DNSName, RecordType |-> e.RecordType, SetIdentifier |-> e.SetIdentifier]

IsOwnedBy(e, ownerID) ==
    LET ok == OwnerLabelKey \in DOMAIN e.Labels
        endpointOwner == IF ok THEN e.Labels[OwnerLabelKey] ELSE ""
    IN  ok /\ endpointOwner = ownerID

\* The loop with `visited[key] = true` moved into the branch that keeps the record.
RECURSIVE FilterLoopMarkKept(_, _, _, _, _)
FilterLoopMarkKept(ownerID, in, i, visited, out) ==
    IF i > Len(in) THEN out
    ELSE LET ep == in[i]
             key == [DNSName |-> ep.DNSName, RecordType |-> ep.RecordType,
                     SetIdentifier |-> ep.SetIdentifier]
             ok == OwnerLabelKey \in DOMAIN ep.Labels
             endpointOwner == IF ok THEN ep.Labels[OwnerLabelKey] ELSE ""
         IN  IF key \in visited
             THEN FilterLoopMarkKept(ownerID, in, i + 1, visited, out)
             ELSE IF ~ok \/ endpointOwner # ownerID
             THEN FilterLoopMarkKept(ownerID, in, i + 1, visited, out)
             ELSE FilterLoopMarkKept(ownerID, in, i + 1, visited \cup {key}, Append(out, ep))

\* The loop without the `continue` on a visited key.
RECURSIVE FilterLoopNoSkip(_, _, _, _, _)
FilterLoopNoSkip(ownerID, in, i, visited, out) ==
    IF i > Len(in) THEN out
    ELSE LET ep == in[i]
             ok == OwnerLabelKey \in DOMAIN ep.Labels
             endpointOwner == IF ok THEN ep.Labels[OwnerLabelKey] ELSE ""
         IN  IF ~ok \/ endpointOwner # ownerID
             THEN FilterLoopNoSkip(ownerID, in, i + 1, visited, out)
             ELSE FilterLoopNoSkip(ownerID, in, i + 1, visited, Append(out, ep))

\* The loop of FilterEndpointsByOwnerID from index i on, with the keys visited
\* and the records kept so far.
RECURSIVE FilterLoop(_, _, _, _, _)
FilterLoop(ownerID, in, i, visited, out) ==
    IF i > Len(in) THEN out
    ELSE LET ep == in[i]
             key == [DNSName |-> ep.DNSName, RecordType |-> ep.RecordType,
                     SetIdentifier |-> ep.SetIdentifier]
             ok == OwnerLabelKey \in DOMAIN ep.Labels
             endpointOwner == IF ok THEN ep.Labels[OwnerLabelKey] ELSE ""
         IN  IF key \in visited
             THEN FilterLoop(ownerID, in, i + 1, visited, out)
             ELSE IF ~ok \/ endpointOwner # ownerID
             THEN FilterLoop(ownerID, in, i + 1, visited \cup {key}, out)
             ELSE FilterLoop(ownerID, in, i + 1, visited \cup {key}, Append(out, ep))

FilterEndpointsByOwnerID(ownerID, in) == FilterLoop(ownerID, in, 1, {}, <<>>)

\* Inputs: records over two names and two set identifiers, with no owner label
\* or the owner "x" or "y", told apart by their target.  "a.com", "b.com";
\* "1.1.1.1", "2.2.2.2".
FilterNames == {<<97, 46, 99, 111, 109>>, <<98, 46, 99, 111, 109>>}

FilterTargets == {<<<<49, 46, 49, 46, 49, 46, 49>>>>, <<<<50, 46, 50, 46, 50, 46, 50>>>>}

FilterLabels == {NewLabels, [k \in {OwnerLabelKey} |-> "x"], [k \in {OwnerLabelKey} |-> "y"]}

Endpoints ==
    [nil : {FALSE}, DNSName : FilterNames, Targets : FilterTargets, RecordType : {"A"},
     SetIdentifier : {"", "s1"}, RecordTTL : {0}, Labels : FilterLabels,
     ProviderSpecific : {<<>>}]

OwnerIDs == {"x", ""}

\* The slice is drawn here; the call is made by the action.
InitFilter ==
    /\ eps \in Lists(Endpoints, MaxEps)
    /\ fcall = [op |-> "none", ownerID |-> ""]
    /\ filtered = <<>>
    /\ TargetsIdle /\ OverlayIdle /\ NewIdle

CallFilter ==
    \E o \in OwnerIDs :
        /\ fcall.op = "none"
        /\ filtered' = FilterEndpointsByOwnerID(o, eps)
        /\ fcall' = [op |-> "Filter", ownerID |-> o]
        /\ UNCHANGED <<eps, targetVars, overlayVars, newVars>>

NextFilter == CallFilter

SpecFilter == InitFilter /\ [][NextFilter]_vars

----------------------------------------------------------------------------
(* Claims about the filter *)

\* The indices of the records the claim keeps: owned, and no earlier record
\* has the same key.
KeptIndices(ownerID, in) ==
    {i \in 1..Len(in) :
        /\ \A j \in 1..(i - 1) : Key(in[j]) # Key(in[i])
        /\ IsOwnedBy(in[i], ownerID)}

\* The records of `in` at the indices I, in their order.
SubsequenceAt(in, I) ==
    [k \in 1..Cardinality(I) |->
        in[CHOOSE i \in I : Cardinality({j \in I : j < i}) = k - 1]]

\* C1: the filter returns, in their order, exactly the records that are owned
\* by ownerID and whose key no earlier record of the input has.
C1_FilterIsFirstOwned ==
    (fcall.op = "Filter") => (filtered = SubsequenceAt(eps, KeptIndices(fcall.ownerID, eps)))

\* Of three records the second repeats the key of the first, which is not
\* owned; the second and the third are owned, and only the third is returned.
C1_Witness ==
    /\ fcall.op = "Filter"
    /\ Len(eps) = 3
    /\ Key(eps[2]) = Key(eps[1])
    /\ Key(eps[3]) # Key(eps[1])
    /\ ~IsOwnedBy(eps[1], fcall.ownerID)
    /\ IsOwnedBy(eps[2], fcall.ownerID)
    /\ IsOwnedBy(eps[3], fcall.ownerID)
    /\ filtered = <<eps[3]>>

\* C10: filtering the result again with the same ownerID returns it unchanged,
\* its records have pairwise distinct keys and are all owned by ownerID, and
\* the call leaves the input slice and every record in it as they were.
C10_FilterIdempotentAndPure ==
    [][(fcall'.op = "Filter") =>
        /\ FilterEndpointsByOwnerID(fcall'.ownerID, filtered') = filtered'
        /\ \A i \in 1..Len(filtered') : \A j \in 1..Len(filtered') :
              i # j => Key(filtered'[i]) # Key(filtered'[j])
        /\ \A i \in 1..Len(filtered') : IsOwnedBy(filtered'[i], fcall'.ownerID)
        /\ eps' = eps]_vars

\* Of three records with the same owner, two share a key: two are returned.
C10_Witness ==
    /\ fcall.op = "Filter"
    /\ Len(eps) = 3
    /\ Len(filtered) = 2
    /\ \A i \in 1..3 : IsOwnedBy(eps[i], fcall.ownerID)
    /\ Key(eps[1]) = Key(eps[2])
    /\ eps[1] # eps[2]

====
